---------------------------- MODULE Spec2Model ----------------------------
(***************************************************************************)
(* Car dealership chatbot: the HTTP API (src/backend.py) and the           *)
(* interactive UI script (src/frontend.py) over one shared store.          *)
(*                                                                         *)
(* Text is a sequence of characters, each character a one-character        *)
(* string; the three symbols outside ASCII are the tokens "U+26A0"         *)
(* (warning sign), "U+1F4A1" (light bulb) and "U+1F4CC" (pushpin).         *)
(***************************************************************************)
EXTENDS Integers, Sequences, FiniteSets, TLC

VARIABLES
  keyApi,    \* backend.py GEMINI_API_KEY is set
  keyUi,     \* frontend.py GEMINI_API_KEY is set
  cars,      \* table cars, in rowid order
  messages,  \* table messages, in rowid order
  ui,        \* st.session_state: session_id, messages
  writes,    \* requests so far that wrote to the store
  resp,      \* the last operation: its name, inputs and what it returned
  leads,             \* table leads, in rowid order
  test_drives,       \* table test_drives, in rowid order
  service_requests,  \* table service_requests, in rowid order
  conns,     \* connections to the store that were opened and not closed
  tables,    \* the store has its tables: CREATE TABLE IF NOT EXISTS has run
  pc,        \* where the API process and the UI script are in their start
  sawEmpty,  \* per process: init_db's SELECT COUNT(*) FROM cars gave 0
  runs       \* starts of a process after its first

\* the tables the forms write, and the start of the two processes
forms == <<leads, test_drives, service_requests>>
boot == <<tables, pc, sawEmpty, runs>>

vars == <<keyApi, keyUi, cars, messages, ui, writes, resp, forms, conns, boot>>

---------------------------------------------------------------------------
(* Bounds of the model *)

\* rows of the earlier session that a store of an earlier run holds
MaxPrior == 15
\* requests of one run that write to the store
MaxWrites == 2
\* rows of the earlier session in the store that the forms and listings find
FewPrior == 3
\* starts of the API process and runs of the UI script after their first
MaxRuns == 2
\* connections that are open and unreachable before the runtime frees one
MaxOpen == 2

---------------------------------------------------------------------------
(* Text helpers *)

\* str.lower() and SQLite's LIKE folding, on the ASCII letters
ToLower ==
  [A |-> "a", B |-> "b", C |-> "c", D |-> "d", E |-> "e", F |-> "f", G |-> "g",
   H |-> "h", I |-> "i", J |-> "j", K |-> "k", L |-> "l", M |-> "m", N |-> "n",
   O |-> "o", P |-> "p", Q |-> "q", R |-> "r", S |-> "s", T |-> "t", U |-> "u",
   V |-> "v", W |-> "w", X |-> "x", Y |-> "y", Z |-> "z"]

UpperLetters == DOMAIN ToLower

LowerChar(c) == IF c \in UpperLetters THEN ToLower[c] ELSE c

Lower(s) == [i \in 1..Len(s) |-> LowerChar(s[i])]

\* Python's `needle in hay` on str
Contains(hay, needle) ==
  \E i \in 0..(Len(hay) - Len(needle)) :
     \A j \in 1..Len(needle) : hay[i + j] = needle[j]

EndsWith(s, suffix) ==
  /\ Len(suffix) <= Len(s)
  /\ \A j \in 1..Len(suffix) : s[Len(s) - Len(suffix) + j] = suffix[j]

StartsWith(s, prefix) ==
  /\ Len(prefix) <= Len(s)
  /\ \A j \in 1..Len(prefix) : s[j] = prefix[j]

\* list[-n:]
LastN(s, n) == IF Len(s) <= n THEN s ELSE SubSeq(s, Len(s) - n + 1, Len(s))

\* list[:n]
FirstN(s, n) == IF Len(s) <= n THEN s ELSE SubSeq(s, 1, n)

\* the elements of s satisfying Keep, in order
RECURSIVE SelectIdx(_, _, _)
SelectIdx(s, Keep(_), i) ==
  IF i > Len(s) THEN <<>>
  ELSE (IF Keep(s[i]) THEN <<s[i]>> ELSE <<>>) \o SelectIdx(s, Keep, i + 1)

Filter(s, Keep(_)) == SelectIdx(s, Keep, 1)

---------------------------------------------------------------------------
(* The store: cars *)

\* init_db's sample_cars, the rowid being the position
SeedCars == <<
  [id |-> 1, make |-> <<"T","o","y","o","t","a">>, model |-> <<"C","o","r","o","l","l","a">>, year |-> 2020, price |-> 3500000,
   features |-> <<"A","B","S",","," ","A","i","r","b","a","g","s",","," ","P","o","w","e","r"," ","S","t","e","e","r","i","n","g",","," ","A","C",","," ","A","l","l","o","y"," ","R","i","m","s">>,
   status |-> "available"],
  [id |-> 2, make |-> <<"H","o","n","d","a">>, model |-> <<"C","i","v","i","c">>, year |-> 2019, price |-> 3200000,
   features |-> <<"C","r","u","i","s","e"," ","C","o","n","t","r","o","l",","," ","S","u","n","r","o","o","f",","," ","L","e","a","t","h","e","r"," ","S","e","a","t","s",","," ","N","a","v","i","g","a","t","i","o","n">>,
   status |-> "available"],
  [id |-> 3, make |-> <<"S","u","z","u","k","i">>, model |-> <<"A","l","t","o">>, year |-> 2021, price |-> 1800000,
   features |-> <<"A","C",","," ","P","o","w","e","r"," ","W","i","n","d","o","w","s",","," ","C","e","n","t","r","a","l"," ","L","o","c","k">>,
   status |-> "available"],
  [id |-> 4, make |-> <<"H","o","n","d","a">>, model |-> <<"C","i","t","y">>, year |-> 2020, price |-> 2800000,
   features |-> <<"A","B","S",","," ","A","i","r","b","a","g","s",","," ","A","l","l","o","y"," ","R","i","m","s",","," ","M","u","l","t","i","m","e","d","i","a">>,
   status |-> "available"],
  [id |-> 5, make |-> <<"T","o","y","o","t","a">>, model |-> <<"Y","a","r","i","s">>, year |-> 2022, price |-> 3900000,
   features |-> <<"S","m","a","r","t"," ","E","n","t","r","y",","," ","P","u","s","h"," ","S","t","a","r","t",","," ","R","e","v","e","r","s","e"," ","C","a","m","e","r","a">>,
   status |-> "available"] >>

\* a row of the cars table that is not offered: the column is free text with
\* the default 'available', and the application never writes it
SoldCar ==
  [id |-> 6, make |-> <<"H","o","n","d","a">>, model |-> <<"B","R","-","V">>, year |-> 2018, price |-> 2500000,
   features |-> <<"A","B","S">>,
   status |-> "sold"]

\* init_db leaves a non-empty cars table as it finds it
CarStores == { SeedCars, Append(SeedCars, SoldCar) }

\* a cars table with more available cars than a snapshot shows: the seed
\* rows twice, a sold car between them, an earlier and a later year behind
BigStore ==
  [i \in 1..13 |->
     CASE i <= 5  -> SeedCars[i]
       [] i = 6   -> SoldCar
       [] i <= 11 -> [SeedCars[i - 6] EXCEPT !.id = i]
       [] i = 12  -> [SeedCars[2] EXCEPT !.id = i]
       [] OTHER   -> [SeedCars[5] EXCEPT !.id = i, !.year = 2023]]

\* SQLite's LIKE without ESCAPE: % is any run of characters, _ any one
\* character, letters compare without case
RECURSIVE LikeAt(_, _, _, _)
LikeAt(text, pattern, i, j) ==
  IF j > Len(pattern) THEN i > Len(text)
  ELSE IF pattern[j] = "%"
    THEN \/ LikeAt(text, pattern, i, j + 1)
         \/ (i <= Len(text) /\ LikeAt(text, pattern, i + 1, j))
  ELSE /\ i <= Len(text)
       /\ \/ pattern[j] = "_"
          \/ LowerChar(pattern[j]) = LowerChar(text[i])
       /\ LikeAt(text, pattern, i + 1, j + 1)

\* text LIKE pattern
Like(text, pattern) == LikeAt(text, pattern, 1, 1)

\* f"%{query}%"
LikePattern(query) == <<"%">> \o query \o <<"%">>

\* SELECT * FROM cars WHERE status = 'available' AND
\*   (make LIKE ? OR model LIKE ? OR features LIKE ?), in rowid order
CarMatches(car, query) ==
  /\ car.status = "available"
  /\ \/ Like(car.make, LikePattern(query))
     \/ Like(car.model, LikePattern(query))
     \/ Like(car.features, LikePattern(query))

search_cars(table, query) ==
  LET Keep(car) == CarMatches(car, query) IN Filter(table, Keep)

\* for car in cars[:3]: the rows rendered below MATCHING CARS, "" when none
get_car_details(table, query) == FirstN(search_cars(table, query), 3)

---------------------------------------------------------------------------
(* Fixed texts of the two surfaces *)

PHONE ==
  <<"0","3","0","0","-","1","2","3","4","5","6","7">>

API_NOT_CONFIGURED ==
  <<"U+26A0"," ","A","I"," ","s","e","r","v","i","c","e"," ","n","o","t"," ","c","o","n","f","i","g","u","r","e","d","."," ","P","l","e","a","s","e"," ","c","o","n","t","a","c","t"," ","s","u","p","p","o","r","t"," ","a","t"," ","0","3","0","0","-","1","2","3","4","5","6","7",".">>

API_NO_ANSWER ==
  <<"U+26A0"," ","S","o","r","r","y",","," ","I"," ","c","o","u","l","d","n","'","t"," ","g","e","n","e","r","a","t","e"," ","a"," ","r","e","s","p","o","n","s","e","."," ","P","l","e","a","s","e"," ","t","r","y"," ","a","g","a","i","n"," ","o","r"," ","c","a","l","l"," ","0","3","0","0","-","1","2","3","4","5","6","7",".">>

API_TROUBLE ==
  <<"U+26A0"," ","I","'","m"," ","h","a","v","i","n","g"," ","t","r","o","u","b","l","e"," ","r","i","g","h","t"," ","n","o","w","."," ","P","l","e","a","s","e"," ","t","r","y"," ","a","g","a","i","n"," ","o","r"," ","c","a","l","l"," ","u","s"," ","a","t",":"," ","0","3","0","0","-","1","2","3","4","5","6","7">>

API_SUGGESTION ==
  <<"\n","\n","U+1F4A1"," ","_","U","s","e"," ","t","h","e"," ","f","o","r","m","s"," ","i","n"," ","t","h","e"," ","s","i","d","e","b","a","r"," ","t","o"," ","b","o","o","k"," ","o","r"," ","s","a","v","e"," ","y","o","u","r"," ","d","e","t","a","i","l","s","!","_">>

API_TRIGGERS == <<
  <<"i","n","t","e","r","e","s","t","e","d">>,
  <<"w","o","u","l","d"," ","y","o","u"," ","l","i","k","e">>,
  <<"b","o","o","k">>,
  <<"s","c","h","e","d","u","l","e">>,
  <<"t","e","s","t"," ","d","r","i","v","e">> >>

UI_NOT_CONFIGURED ==
  <<"U+26A0"," ","A","I"," ","k","e","y"," ","n","o","t"," ","c","o","n","f","i","g","u","r","e","d"," ","i","n"," ","f","r","o","n","t","e","n","d","."," ","P","l","e","a","s","e"," ","c","o","n","f","i","g","u","r","e"," ","G","E","M","I","N","I","_","A","P","I","_","K","E","Y"," ","i","n"," ",".","e","n","v"," ","o","r"," ","S","t","r","e","a","m","l","i","t"," ","s","e","c","r","e","t","s",".">>

UI_NO_PARSE ==
  <<"U+26A0"," ","C","o","u","l","d","n","'","t"," ","p","a","r","s","e"," ","A","I"," ","r","e","s","p","o","n","s","e",".">>

\* the text before {e}
UI_TROUBLE ==
  <<"U+26A0"," ","I","'","m"," ","h","a","v","i","n","g"," ","t","r","o","u","b","l","e"," ","c","o","n","n","e","c","t","i","n","g"," ","r","i","g","h","t"," ","n","o","w","."," ","P","l","e","a","s","e"," ","t","r","y"," ","a","g","a","i","n"," ","o","r"," ","c","a","l","l"," ","u","s"," ","a","t",":"," ","0","3","0","0","-","1","2","3","4","5","6","7","\n","\n","E","r","r","o","r",":"," ">>

UI_SUGGESTION ==
  <<"\n","\n","U+1F4A1"," ","_","T","i","p",":"," ","U","s","e"," ","t","h","e"," ","f","o","r","m","s"," ","i","n"," ","t","h","e"," ","s","i","d","e","b","a","r"," ","t","o"," ","b","o","o","k"," ","a"," ","t","e","s","t"," ","d","r","i","v","e"," ","o","r"," ","s","a","v","e"," ","y","o","u","r"," ","d","e","t","a","i","l","s","!","_">>

UI_TRIGGERS == <<
  <<"i","n","t","e","r","e","s","t","e","d">>,
  <<"w","o","u","l","d"," ","y","o","u"," ","l","i","k","e">>,
  <<"s","h","a","l","l"," ","i">>,
  <<"b","o","o","k">>,
  <<"s","c","h","e","d","u","l","e">> >>

\* any(word in text.lower() for word in triggers)
AnyTrigger(text, triggers) ==
  \E k \in 1..Len(triggers) : Contains(Lower(text), triggers[k])

---------------------------------------------------------------------------
(* JSON values as Python decodes them *)

JNull == [t |-> "null", v |-> 0]
JBool(b) == [t |-> "bool", v |-> b]
JNum(n) == [t |-> "num", v |-> n]
JStr(s) == [t |-> "str", v |-> s]
JList(l) == [t |-> "list", v |-> l]
JObj(f) == [t |-> "obj", v |-> f]
NoKeys == [k \in {} |-> JNull]

\* bool(x)
Truthy(j) ==
  CASE j.t = "null" -> FALSE
    [] j.t = "bool" -> j.v
    [] j.t = "num" -> j.v # 0
    [] j.t = "str" -> Len(j.v) > 0
    [] j.t = "list" -> Len(j.v) > 0
    [] j.t = "obj" -> DOMAIN j.v # {}

\* d.get(key, default) on a dict d
DictGet(d, key, default) == IF key \in DOMAIN d.v THEN d.v[key] ELSE default

\* x or y
PyOr(x, y) == IF Truthy(x) THEN x ELSE y

\* what a step of the extraction gives: a value, or an exception with str(e)
Value(j) == [raised |-> FALSE, val |-> j, err |-> <<>>]
Raised(e) == [raised |-> TRUE, val |-> JNull, err |-> e]

ATTRIBUTE_ERROR == <<"A","t","t","r","i","b","u","t","e","E","r","r","o","r">>
KEY_ERROR == <<"K","e","y","E","r","r","o","r">>
TYPE_ERROR == <<"T","y","p","e","E","r","r","o","r">>
JSON_ERROR == <<"J","S","O","N","D","e","c","o","d","e","E","r","r","o","r">>
READ_TIMEOUT == <<"R","e","a","d","T","i","m","e","o","u","t">>
CONNECTION_ERROR == <<"C","o","n","n","e","c","t","i","o","n","E","r","r","o","r">>
RETRY_ERROR == <<"R","e","t","r","y","E","r","r","o","r">>
HTTP_ERROR(status) == <<ToString(status)>> \o <<" ","E","r","r","o","r">>

\* x[0] on a truthy x that need not be a list
Index0(x) ==
  CASE x.t = "list" -> Value(x.v[1])
    [] x.t = "str" -> Value(JStr(<<x.v[1]>>))
    [] x.t = "obj" -> Raised(KEY_ERROR)
    [] OTHER -> Raised(TYPE_ERROR)

---------------------------------------------------------------------------
(* The generation API's answers *)

\* texts the model may produce
GenTexts == <<
  <<"H","i">>,
  <<"P","l","e","a","s","e"," ","B","O","O","K"," ","n","o","w">>,
  <<"T","a","k","e"," ","a"," ","t","e","s","t"," ","d","r","i","v","e">>,
  <<"S","h","a","l","l"," ","I"," ","h","e","l","p">>,
  <<"A","r","e"," ","y","o","u"," ","I","n","t","e","r","e","s","t","e","d">> >>

\* values that may stand where the API's documented value is expected
Shapes == <<
  JNull, JBool(FALSE), JBool(TRUE), JNum(0), JNum(42), JStr(<<>>), JStr(<<"x">>),
  JList(<<>>), JList(<<JStr(<<"x">>)>>), JObj(NoKeys), JObj([k |-> JNum(1)]) >>

\* a body with x in place of one level of candidates[0].content.parts[0].text
BodyWithText(x) ==
  JObj([candidates |-> JList(<<JObj([content |->
        JObj([parts |-> JList(<<JObj([text |-> x])>>)])])>>)])
BodyWithPart(x) ==
  JObj([candidates |-> JList(<<JObj([content |-> JObj([parts |-> JList(<<x>>)])])>>)])
BodyWithParts(x) ==
  JObj([candidates |-> JList(<<JObj([content |-> JObj([parts |-> x])])>>)])
BodyWithContent(x) ==
  JObj([candidates |-> JList(<<JObj([content |-> x])>>)])
BodyWithCandidate(x) ==
  JObj([candidates |-> JList(<<x>>)])
BodyWithCandidates(x) ==
  JObj([candidates |-> x])

NShapes == Len(Shapes)
NTexts == Len(GenTexts)

\* the 200 bodies of the model, by number; body 0 is a body that is not JSON
Bodies ==
  [i \in 1..NTexts |-> BodyWithText(JStr(GenTexts[i]))]
  \o [i \in 1..NShapes |-> BodyWithText(Shapes[i])]
  \o [i \in 1..NShapes |-> BodyWithPart(Shapes[i])]
  \o [i \in 1..NShapes |-> BodyWithParts(Shapes[i])]
  \o [i \in 1..NShapes |-> BodyWithContent(Shapes[i])]
  \o [i \in 1..NShapes |-> BodyWithCandidate(Shapes[i])]
  \o [i \in 1..NShapes |-> BodyWithCandidates(Shapes[i])]
  \o [i \in 1..NShapes |-> Shapes[i]]

NBodies == NTexts + 7 * NShapes

\* what one POST meets
Response(status, body) == [status |-> status, body |-> body, kind |-> "response"]
ConnectError == [status |-> 0, body |-> 0, kind |-> "connect_error"]
ReadTimeout == [status |-> 0, body |-> 0, kind |-> "read_timeout"]

---------------------------------------------------------------------------
(* The outbound call *)

\* Retry(total=2, backoff_factor=0.5, status_forcelist=[429, 500, 502, 503, 504])
RETRY_TOTAL == 2
STATUS_FORCELIST == {429, 500, 502, 503, 504}
\* the Retry is built without allowed_methods, so urllib3's default applies:
\* Retry.DEFAULT_ALLOWED_METHODS, the idempotent methods
ALLOWED_METHODS == {"HEAD", "GET", "PUT", "DELETE", "OPTIONS", "TRACE"}

\* POSTs one chat turn can issue: the first and RETRY_TOTAL more
MaxPosts == RETRY_TOTAL + 1

Returned(i, o) == [raised |-> FALSE, err |-> <<>>, posts |-> i, response |-> o]
Failed(i, e) == [raised |-> TRUE, err |-> e, posts |-> i, response |-> ConnectError]

\* session.post through the HTTPAdapter with the Retry above: attempt i of
\* the transport's answers, with `total` retries left. urllib3 retries a
\* failure to connect for any method; a read error, or a status of the
\* forcelist, only for a method of allowed_methods.
RECURSIVE Attempt(_, _, _, _)
Attempt(method, transport, i, total) ==
  LET o == transport[i] IN
  CASE o.kind = "connect_error" ->
         IF total > 0 THEN Attempt(method, transport, i + 1, total - 1)
         ELSE Failed(i, CONNECTION_ERROR)
    [] o.kind = "read_timeout" ->
         IF method \in ALLOWED_METHODS /\ total > 0
         THEN Attempt(method, transport, i + 1, total - 1)
         ELSE Failed(i, READ_TIMEOUT)
    [] OTHER ->
         IF method \in ALLOWED_METHODS /\ o.status \in STATUS_FORCELIST
         THEN IF total > 0 THEN Attempt(method, transport, i + 1, total - 1)
              ELSE Failed(i, RETRY_ERROR)
         ELSE Returned(i, o)

\* get_requests_session().post(...)
session_post(transport) == Attempt("POST", transport, 1, RETRY_TOTAL)

\* requests.post(...): no Retry is mounted, one attempt
requests_post(transport) ==
  LET o == transport[1] IN
  CASE o.kind = "connect_error" -> Failed(1, CONNECTION_ERROR)
    [] o.kind = "read_timeout" -> Failed(1, READ_TIMEOUT)
    [] OTHER -> Returned(1, o)

\* res.raise_for_status(); body = res.json()
ReadBody(sent) ==
  IF sent.raised THEN Raised(sent.err)
  ELSE IF sent.response.status >= 400 THEN Raised(HTTP_ERROR(sent.response.status))
  ELSE IF sent.response.body = 0 THEN Raised(JSON_ERROR)
  ELSE Value(Bodies[sent.response.body])

---------------------------------------------------------------------------
(* The knowledge base *)

\* knowledge_base.values(), in the dict's order; the same in both files
knowledge_base == <<
  [topic |-> "financing",
   info |-> <<"W","e"," ","o","f","f","e","r"," ","f","l","e","x","i","b","l","e"," ","f","i","n","a","n","c","i","n","g"," ","o","p","t","i","o","n","s"," ","w","i","t","h"," ","2","0","-","3","0","%"," ","d","o","w","n"," ","p","a","y","m","e","n","t"," ","a","n","d"," ","u","p"," ","t","o"," ","5"," ","y","e","a","r","s"," ","i","n","s","t","a","l","l","m","e","n","t"," ","p","l","a","n","s","."," ","I","n","t","e","r","e","s","t"," ","r","a","t","e","s"," ","s","t","a","r","t"," ","f","r","o","m"," ","1","2","%"," ","p","e","r"," ","a","n","n","u","m",".">>,
   keywords |-> <<
     <<"f","i","n","a","n","c","e">>,
     <<"l","o","a","n">>,
     <<"i","n","s","t","a","l","l","m","e","n","t">>,
     <<"p","a","y","m","e","n","t"," ","p","l","a","n">>,
     <<"e","m","i">>,
     <<"d","o","w","n"," ","p","a","y","m","e","n","t">> >>],
  [topic |-> "warranty",
   info |-> <<"A","l","l"," ","o","u","r"," ","c","a","r","s"," ","c","o","m","e"," ","w","i","t","h"," ","a"," ","3","-","m","o","n","t","h"," ","d","e","a","l","e","r"," ","w","a","r","r","a","n","t","y"," ","c","o","v","e","r","i","n","g"," ","e","n","g","i","n","e"," ","a","n","d"," ","t","r","a","n","s","m","i","s","s","i","o","n","."," ","E","x","t","e","n","d","e","d"," ","w","a","r","r","a","n","t","y"," ","p","a","c","k","a","g","e","s"," ","a","v","a","i","l","a","b","l","e"," ","f","o","r"," ","u","p"," ","t","o"," ","2"," ","y","e","a","r","s",".">>,
   keywords |-> <<
     <<"w","a","r","r","a","n","t","y">>,
     <<"g","u","a","r","a","n","t","e","e">>,
     <<"c","o","v","e","r","a","g","e">>,
     <<"p","r","o","t","e","c","t","i","o","n">> >>],
  [topic |-> "exchange",
   info |-> <<"W","e"," ","a","c","c","e","p","t"," ","c","a","r"," ","e","x","c","h","a","n","g","e","!"," ","B","r","i","n","g"," ","y","o","u","r"," ","o","l","d"," ","c","a","r"," ","a","n","d"," ","w","e","'","l","l"," ","e","v","a","l","u","a","t","e"," ","i","t"," ","f","o","r"," ","t","h","e"," ","b","e","s","t"," ","e","x","c","h","a","n","g","e"," ","v","a","l","u","e","."," ","W","e"," ","h","a","n","d","l","e"," ","a","l","l"," ","d","o","c","u","m","e","n","t","a","t","i","o","n",".">>,
   keywords |-> <<
     <<"e","x","c","h","a","n","g","e">>,
     <<"t","r","a","d","e","-","i","n">>,
     <<"o","l","d"," ","c","a","r">>,
     <<"s","w","a","p">> >>],
  [topic |-> "service",
   info |-> <<"O","u","r"," ","s","e","r","v","i","c","e"," ","c","e","n","t","e","r"," ","o","f","f","e","r","s",":"," ","R","e","g","u","l","a","r"," ","m","a","i","n","t","e","n","a","n","c","e",","," ","O","i","l"," ","c","h","a","n","g","e","s",","," ","B","r","a","k","e"," ","s","e","r","v","i","c","e","s",","," ","A","C"," ","r","e","p","a","i","r",","," ","E","n","g","i","n","e"," ","d","i","a","g","n","o","s","t","i","c","s",","," ","B","o","d","y"," ","w","o","r","k"," ","a","n","d"," ","p","a","i","n","t","i","n","g",".">>,
   keywords |-> <<
     <<"s","e","r","v","i","c","e">>,
     <<"m","a","i","n","t","e","n","a","n","c","e">>,
     <<"r","e","p","a","i","r">>,
     <<"f","i","x">>,
     <<"m","e","c","h","a","n","i","c">> >>],
  [topic |-> "inspection",
   info |-> <<"F","r","e","e"," ","p","r","e","-","p","u","r","c","h","a","s","e"," ","i","n","s","p","e","c","t","i","o","n"," ","a","v","a","i","l","a","b","l","e"," ","f","o","r"," ","a","l","l"," ","c","a","r","s","."," ","O","u","r"," ","c","e","r","t","i","f","i","e","d"," ","t","e","c","h","n","i","c","i","a","n","s"," ","c","h","e","c","k"," ","1","5","0","+"," ","p","o","i","n","t","s"," ","b","e","f","o","r","e"," ","d","e","l","i","v","e","r","y",".">>,
   keywords |-> <<
     <<"i","n","s","p","e","c","t","i","o","n">>,
     <<"c","h","e","c","k">>,
     <<"e","v","a","l","u","a","t","e">>,
     <<"c","o","n","d","i","t","i","o","n">> >>],
  [topic |-> "delivery",
   info |-> <<"F","r","e","e"," ","h","o","m","e"," ","d","e","l","i","v","e","r","y"," ","w","i","t","h","i","n"," ","c","i","t","y"," ","l","i","m","i","t","s","."," ","F","o","r"," ","o","u","t","s","t","a","t","i","o","n"," ","d","e","l","i","v","e","r","y",","," ","c","h","a","r","g","e","s"," ","a","p","p","l","y"," ","b","a","s","e","d"," ","o","n"," ","d","i","s","t","a","n","c","e",".">>,
   keywords |-> <<
     <<"d","e","l","i","v","e","r","y">>,
     <<"s","h","i","p","p","i","n","g">>,
     <<"t","r","a","n","s","p","o","r","t">> >>],
  [topic |-> "documentation",
   info |-> <<"W","e"," ","h","a","n","d","l","e"," ","a","l","l"," ","d","o","c","u","m","e","n","t","a","t","i","o","n"," ","i","n","c","l","u","d","i","n","g",":"," ","R","e","g","i","s","t","r","a","t","i","o","n"," ","t","r","a","n","s","f","e","r",","," ","T","o","k","e","n"," ","t","a","x",","," ","I","n","s","u","r","a","n","c","e",","," ","N","u","m","b","e","r"," ","p","l","a","t","e"," ","t","r","a","n","s","f","e","r","."," ","P","r","o","c","e","s","s","i","n","g"," ","t","i","m","e",":"," ","7","-","1","4"," ","d","a","y","s",".">>,
   keywords |-> <<
     <<"d","o","c","u","m","e","n","t","s">>,
     <<"r","e","g","i","s","t","r","a","t","i","o","n">>,
     <<"t","r","a","n","s","f","e","r">>,
     <<"p","a","p","e","r","w","o","r","k">>,
     <<"t","o","k","e","n"," ","t","a","x">> >>],
  [topic |-> "operating_hours",
   info |-> <<"W","e","'","r","e"," ","o","p","e","n"," ","M","o","n","d","a","y"," ","t","o"," ","S","a","t","u","r","d","a","y",":"," ","1","0",":","0","0"," ","A","M"," ","-"," ","8",":","0","0"," ","P","M",","," ","S","u","n","d","a","y",":"," ","1","1",":","0","0"," ","A","M"," ","-"," ","6",":","0","0"," ","P","M","."," ","2","4","/","7"," ","s","u","p","p","o","r","t"," ","a","v","a","i","l","a","b","l","e"," ","v","i","a"," ","p","h","o","n","e",".">>,
   keywords |-> <<
     <<"h","o","u","r","s">>,
     <<"t","i","m","i","n","g">>,
     <<"o","p","e","n">>,
     <<"c","l","o","s","e">>,
     <<"s","c","h","e","d","u","l","e">> >>] >>

\* the keyword loop without its break: one info for each keyword found
RECURSIVE KeywordLoop_NoBreak(_, _, _)
KeywordLoop_NoBreak(data, query_lower, k) ==
  IF k > Len(data.keywords) THEN <<>>
  ELSE (IF Contains(query_lower, data.keywords[k]) THEN <<data.info>> ELSE <<>>)
       \o KeywordLoop_NoBreak(data, query_lower, k + 1)

\* for keyword in data["keywords"]: the first keyword found in the query
\* appends the topic's info and breaks
RECURSIVE KeywordLoop(_, _, _)
KeywordLoop(data, query_lower, k) ==
  IF k > Len(data.keywords) THEN <<>>
  ELSE IF Contains(query_lower, data.keywords[k]) THEN <<data.info>>
  ELSE KeywordLoop(data, query_lower, k + 1)

\* for data in knowledge_base.values()
RECURSIVE TopicLoop(_, _)
TopicLoop(query_lower, t) ==
  IF t > Len(knowledge_base) THEN <<>>
  ELSE KeywordLoop(knowledge_base[t], query_lower, 1) \o TopicLoop(query_lower, t + 1)

search_knowledge_base(query) == TopicLoop(Lower(query), 1)

---------------------------------------------------------------------------
(* The inventory snapshot and the prompt's sections *)

\* ORDER BY year DESC: a row goes behind the rows of its year and of later
\* years, so rows of one year stay in rowid order
InsertByYear(sorted, row) ==
  LET k == Cardinality({ j \in 1..Len(sorted) : sorted[j].year >= row.year })
  IN SubSeq(sorted, 1, k) \o <<row>> \o SubSeq(sorted, k + 1, Len(sorted))

RECURSIVE SortLoop(_, _, _)
SortLoop(rows, i, sorted) ==
  IF i > Len(rows) THEN sorted
  ELSE SortLoop(rows, i + 1, InsertByYear(sorted, rows[i]))

\* SELECT * FROM cars WHERE status = 'available' ORDER BY year DESC
get_all_cars(table) ==
  LET Available(car) == car.status = "available"
  IN SortLoop(Filter(table, Available), 1, <<>>)

\* ... LIMIT 10 in the API's chat, get_all_cars()[:10] in ask_gemini
SNAPSHOT_LIMIT == 10

\* the query without its ORDER BY: the first rows in the order of insertion
snapshot_InsertionOrder(table, limit) ==
  LET Available(car) == car.status = "available"
  IN FirstN(Filter(table, Available), limit)

snapshot(table, limit) == FirstN(get_all_cars(table), limit)

\* the headers of full_prompt, in their order: those of context, those
\* additional_context was given, and the two that full_prompt has itself
PromptHeaders(kb_matches, car_details) ==
  << "AVAILABLE INVENTORY", "SERVICES & POLICIES", "YOUR ROLE", "IMPORTANT" >>
  \o (IF kb_matches # <<>> THEN << "RELEVANT INFORMATION" >> ELSE <<>>)
  \o (IF car_details # <<>> THEN << "MATCHING CARS" >> ELSE <<>>)
  \o << "CONVERSATION HISTORY", "CUSTOMER QUERY" >>

---------------------------------------------------------------------------
(* The HTTP API's chat handler, backend.py *)

INTERNAL_SERVER_ERROR ==
  <<"I","n","t","e","r","n","a","l"," ","s","e","r","v","e","r"," ","e","r","r","o","r">>

\* what a handler hands to its caller
Text(s) == [status |-> 200, text |-> s, kind |-> "text"]
HttpError(code, detail) == [status |-> code, text |-> detail, kind |-> "error"]

\* history window of both surfaces: request.history[-10:], messages[-10:]
HISTORY_WINDOW == 10

\* the extraction of candidates[0].content.parts[0].text
ApiExtract(body) ==
  IF body.t # "obj" THEN Raised(ATTRIBUTE_ERROR)
  ELSE LET candidates == PyOr(DictGet(body, "candidates", JNull), JList(<<>>)) IN
  IF ~(Truthy(candidates) /\ candidates.t = "list") THEN Value(JStr(<<>>))
  ELSE LET candidate == candidates.v[1] IN
  IF candidate.t # "obj" THEN Raised(ATTRIBUTE_ERROR)
  ELSE LET content == PyOr(DictGet(candidate, "content", JNull), JObj(NoKeys)) IN
  IF content.t # "obj" THEN Raised(ATTRIBUTE_ERROR)
  ELSE LET parts == PyOr(DictGet(content, "parts", JNull), JList(<<>>)) IN
  IF ~(Truthy(parts) /\ parts.t = "list") THEN Value(JStr(<<>>))
  ELSE LET part == parts.v[1] IN
  IF part.t # "obj" THEN Raised(ATTRIBUTE_ERROR)
  ELSE Value(DictGet(part, "text", JStr(<<>>)))

\* the inner try: the POST, the extraction and the two fallbacks
ApiCall(transport) ==
  LET sent == session_post(transport)
      body == ReadBody(sent)
      got  == IF body.raised THEN body ELSE ApiExtract(body.val)
  IN [raised |-> got.raised, err |-> got.err, posts |-> sent.posts,
      extracted |-> got.val,
      response_text |->
        IF got.raised THEN JStr(API_TROUBLE)
        ELSE IF ~Truthy(got.val) THEN JStr(API_NO_ANSWER)
        ELSE got.val]

\* "Suggest action if intent present"; response_text.lower() is outside the
\* inner try, so what it raises reaches the handler's own except
ApiSuggest(response_text) ==
  IF response_text.t # "str" THEN HttpError(500, INTERNAL_SERVER_ERROR)
  ELSE IF AnyTrigger(response_text.v, API_TRIGGERS)
    THEN Text(response_text.v \o API_SUGGESTION)
  ELSE Text(response_text.v)

\* a row of a prompt's MATCHING CARS block is named by its car's rowid
Ids(rows) == [i \in 1..Len(rows) |-> rows[i].id]

\* chat with the key looked at only after the call has been made
chat_KeyCheckAfterCall(key, table, user_message, history, transport) ==
  LET car_details  == get_car_details(table, user_message)
      history_text == LastN(history, HISTORY_WINDOW)
      call         == ApiCall(transport)
  IN [raised |-> FALSE, err |-> <<>>, posts |-> call.posts, extracted |-> JNull,
      history |-> history_text,
      pre |-> JNull,
      result |-> IF key THEN ApiSuggest(call.response_text)
                 ELSE Text(API_NOT_CONFIGURED), prompted |-> TRUE,
      matching |-> Ids(car_details), kb |-> search_knowledge_base(user_message),
      sections |-> PromptHeaders(search_knowledge_base(user_message), car_details),
      inventory |-> Ids(snapshot(table, SNAPSHOT_LIMIT))]

\* chat(request): what it assembles and what it returns
chat(key, table, user_message, history, transport) ==
  LET kb_matches   == search_knowledge_base(user_message)
      car_details  == get_car_details(table, user_message)
      history_text == LastN(history, HISTORY_WINDOW)
      call         == ApiCall(transport)
  IN IF ~key
     THEN [raised |-> FALSE, err |-> <<>>, posts |-> 0, extracted |-> JNull,
           history |-> history_text, pre |-> JNull,
           result |-> Text(API_NOT_CONFIGURED), prompted |-> TRUE,
           matching |-> Ids(car_details), kb |-> kb_matches,
           sections |-> PromptHeaders(kb_matches, car_details),
           inventory |-> Ids(snapshot(table, SNAPSHOT_LIMIT))]
     ELSE [raised |-> call.raised, err |-> call.err, posts |-> call.posts,
           extracted |-> call.extracted,
           history |-> history_text, pre |-> call.response_text,
           result |-> ApiSuggest(call.response_text), prompted |-> TRUE,
           matching |-> Ids(car_details), kb |-> kb_matches,
           sections |-> PromptHeaders(kb_matches, car_details),
           inventory |-> Ids(snapshot(table, SNAPSHOT_LIMIT))]

---------------------------------------------------------------------------
(* The interactive UI's ask_gemini, frontend.py *)

\* the try block after the POST: None stands for falling through to the
\* "Couldn't parse" return
UiExtract(body) ==
  IF body.t # "obj" THEN Raised(ATTRIBUTE_ERROR)
  ELSE LET candidates == PyOr(DictGet(body, "candidates", JNull), JList(<<>>)) IN
  IF ~Truthy(candidates) THEN Value(JNull)
  ELSE LET first == Index0(candidates) IN
  IF first.raised THEN first
  ELSE IF first.val.t # "obj" THEN Raised(ATTRIBUTE_ERROR)
  ELSE LET content == DictGet(first.val, "content", JObj(NoKeys)) IN
  IF content.t # "obj" THEN Raised(ATTRIBUTE_ERROR)
  ELSE LET parts == DictGet(content, "parts", JList(<<>>)) IN
  IF ~Truthy(parts) THEN Value(JNull)
  ELSE LET part == Index0(parts) IN
  IF part.raised THEN part
  ELSE IF part.val.t # "obj" THEN Raised(ATTRIBUTE_ERROR)
  ELSE LET response == DictGet(part.val, "text", JStr(<<>>)) IN
  IF response.t # "str" THEN Raised(ATTRIBUTE_ERROR)
  ELSE Value(response)

\* the tip appended inside the try
UiSuggest(response) ==
  IF AnyTrigger(response, UI_TRIGGERS) THEN response \o UI_SUGGESTION ELSE response

\* ask_gemini(user_query, conversation_history)
ask_gemini(key, table, user_query, conversation_history, transport) ==
  LET kb_matches == search_knowledge_base(user_query)
      car_details == get_car_details(table, user_query)
      sent == requests_post(transport)
      body == ReadBody(sent)
      got  == IF body.raised THEN body ELSE UiExtract(body.val)
  IN IF ~key
     THEN [raised |-> FALSE, err |-> <<>>, posts |-> 0, extracted |-> JNull,
           history |-> <<>>, pre |-> JNull,
           result |-> Text(UI_NOT_CONFIGURED), prompted |-> FALSE, matching |-> <<>>, kb |-> <<>>,
           sections |-> <<>>, inventory |-> <<>>]
     ELSE [raised |-> got.raised, err |-> got.err, posts |-> sent.posts,
           extracted |-> got.val,
           history |-> conversation_history,
           pre |-> got.val,
           result |->
             IF got.raised THEN Text(UI_TROUBLE \o got.err)
             ELSE IF got.val.t = "null" THEN Text(UI_NO_PARSE)
             ELSE Text(UiSuggest(got.val.v)), prompted |-> TRUE,
           matching |-> Ids(car_details), kb |-> kb_matches,
           sections |-> PromptHeaders(kb_matches, car_details),
           inventory |-> Ids(snapshot(table, SNAPSHOT_LIMIT))]

---------------------------------------------------------------------------
(* The store: messages *)

\* the session of this run of the UI, and a session of an earlier run
NEW_SESSION == "20261106120000"
OLD_SESSION == "20261105090000"
Sessions == {NEW_SESSION, OLD_SESSION}

Row(session_id, role, text) == [text |-> text, session_id |-> session_id, role |-> role]
Entry(role, content) == [content |-> content, role |-> role]

\* the INSERT with its conn.commit() left out: the row is lost with the connection
save_message_NoCommit(table, session_id, role, text) == table

\* the INSERT as a REPLACE of the newest row
save_message_Overwrite(table, session_id, role, text) ==
  IF table = <<>> THEN <<Row(session_id, role, text)>>
  ELSE [table EXCEPT ![Len(table)] = Row(session_id, role, text)]

\* INSERT INTO messages (session_id, role, text): one row, at the end
save_message(table, session_id, role, text) ==
  Append(table, Row(session_id, role, text))

\* get_session_messages(session_id, 50): ORDER BY id DESC LIMIT ?, reversed
SESSION_LIMIT == 50
get_session_messages(table, session_id, limit) ==
  LET Mine(row) == row.session_id = session_id
  IN LastN(Filter(table, Mine), limit)

\* for role, msg, *_ in ...: messages.append({"role": role, "content": msg})
AsEntries(rows) == [i \in 1..Len(rows) |-> Entry(rows[i].role, rows[i].text)]

\* the listing with ORDER BY id ASC: the oldest rows, not the newest
get_messages_OldestKept(table, session_id, limit) ==
  LET Mine(row) == row.session_id = session_id
      mine == Filter(table, Mine)
      kept == IF limit < 0 THEN mine ELSE FirstN(mine, limit)
  IN [i \in 1..Len(kept) |-> [text |-> kept[i].text, role |-> kept[i].role]]

\* GET /messages/{session_id}?limit=: ORDER BY id DESC LIMIT ?, reversed; a
\* negative LIMIT is no limit
get_messages(table, session_id, limit) ==
  LET Mine(row) == row.session_id = session_id
      mine == Filter(table, Mine)
      kept == IF limit < 0 THEN mine ELSE LastN(mine, limit)
  IN [i \in 1..Len(kept) |-> [text |-> kept[i].text, role |-> kept[i].role]]

\* SELECT COUNT(*) FROM messages WHERE session_id = ?
CountMessages(table, session_id) ==
  Cardinality({ i \in 1..Len(table) : table[i].session_id = session_id })

\* GET /stats/{session_id}
get_stats(msgs, bookings, lds, session_id) ==
  [messages |-> CountMessages(msgs, session_id),
   leads |-> Len(lds),
   test_drives |-> Len(bookings)]

\* the UI's get_user_history_summary: SELECT COUNT(*) FROM leads WHERE name IN
\* (SELECT DISTINCT text FROM messages WHERE session_id = ?)
get_user_history_summary(msgs, bookings, lds, session_id) ==
  LET texts == { msgs[i].text : i \in { j \in 1..Len(msgs) : msgs[j].session_id = session_id } }
  IN [messages |-> CountMessages(msgs, session_id),
      leads |-> Cardinality({ i \in 1..Len(lds) : lds[i].name \in texts }),
      test_drives |-> Len(bookings)]

\* what an earlier run left: n rows of OLD_SESSION, a user's and the
\* assistant's in turn
PriorText(i) == <<"m", ToString(i)>>
PriorStore(n) ==
  [i \in 1..n |-> Row(OLD_SESSION, IF i % 2 = 1 THEN "user" ELSE "assistant", PriorText(i))]

\* the greeting a session without messages starts with, by its first word
WELCOME == <<"W","e","l","c","o","m","e">>

---------------------------------------------------------------------------
(* The store: leads, test_drives, service_requests *)

\* str.strip(): without the whitespace at its two ends
Whitespace == {" ", "\n", "\t"}
Strip(s) ==
  LET kept == { i \in 1..Len(s) : s[i] \notin Whitespace }
  IN IF kept = {} THEN <<>>
     ELSE SubSeq(s, CHOOSE i \in kept : \A j \in kept : i <= j,
                    CHOOSE i \in kept : \A j \in kept : j <= i)

\* (x or "").strip() on an optional field
StripOptional(x) == Strip(PyOr(x, JStr(<<>>)).v)

\* POST /leads, and the UI's save_lead: the same INSERT
create_lead(table, lead) ==
  Append(table,
    [status |-> "new", name |-> Strip(lead.name.v),
     phone |-> Strip(lead.phone.v),
     email |-> StripOptional(lead.email),
     interested_in |-> StripOptional(lead.interested_in), budget |-> StripOptional(lead.budget),
     notes |-> StripOptional(lead.notes)])

save_lead(table, name, phone, email, interested_in, budget, notes) ==
  Append(table,
    [status |-> "new", name |-> Strip(name),
     phone |-> Strip(phone),
     email |-> StripOptional(JStr(email)),
     interested_in |-> StripOptional(JStr(interested_in)), budget |-> StripOptional(JStr(budget)),
     notes |-> StripOptional(JStr(notes))])

\* POST /test-drives
create_test_drive(table, test_drive) ==
  Append(table,
    [status |-> "pending",
     phone |-> Strip(test_drive.phone.v),
     email |-> StripOptional(test_drive.email),
     customer_name |-> Strip(test_drive.customer_name.v),
     car_model |-> Strip(test_drive.car_model.v),
     preferred_date |-> Strip(test_drive.preferred_date.v),
     preferred_time |-> Strip(test_drive.preferred_time.v)])

\* the UI's save_test_drive: the date and the time go in as they are
save_test_drive(table, customer_name, phone, email, car_model, preferred_date, preferred_time) ==
  Append(table,
    [status |-> "pending", phone |-> Strip(phone),
     email |-> StripOptional(JStr(email)), customer_name |-> Strip(customer_name),
     car_model |-> Strip(car_model), preferred_date |-> preferred_date,
     preferred_time |-> preferred_time])

\* POST /service-requests, and the UI's save_service_request
create_service_request(table, service) ==
  Append(table,
    [status |-> "pending",
     phone |-> Strip(service.phone.v),
     customer_name |-> Strip(service.customer_name.v),
     car_model |-> Strip(service.car_model.v),
     service_type |-> Strip(service.service_type.v),
     description |-> StripOptional(service.description)])

save_service_request(table, customer_name, phone, car_model, service_type, description) ==
  Append(table,
    [status |-> "pending", phone |-> Strip(phone),
     customer_name |-> Strip(customer_name), car_model |-> Strip(car_model),
     service_type |-> Strip(service_type),
     description |-> StripOptional(JStr(description))])

---------------------------------------------------------------------------
(* Inputs *)

Q_HONDA == <<"H","o","n","d","a">>
Q_HONDA_BUDGET ==
  <<"I"," ","w","a","n","t"," ","a"," ","H","o","n","d","a"," ","u","n","d","e","r"," ","3"," ","m","i","l","l","i","o","n">>

\* what users type into the chat and the search
Queries == {
  Q_HONDA, Q_HONDA_BUDGET,
  <<"h","o","n","d","a">>, <<"C","I","V","I","C">>, <<"a","b","s">>,
  <<"%">>, <<"_">>, <<"C","_","t","y">>, <<"B","R","-","V">>, <<"H","i">>, <<>> }

FewQueries == { Q_HONDA, <<"H","i">> }

\* questions about the dealership's services
Q_FINANCE_WARRANTY ==
  <<"F","i","n","a","n","c","e"," ","o","r"," ","a"," ","l","o","a","n"," ","w","i","t","h"," ","W","A","R","R","A","N","T","Y">>
KbQueries == {
  Q_FINANCE_WARRANTY,
  <<"d","e","l","i","v","e","r","y"," ","a","n","d"," ","w","a","r","r","a","n","t","y">>,
  <<"p","r","e","m","i","u","m">>,
  Q_HONDA, <<"H","i">>, <<>> }

\* what the forms and the API's clients send
NAME == <<"A","l","i">>
NAME_PADDED == <<" ","A","l","i"," ">>
EMAIL_PADDED == <<" ","a","@","b",".","p","k"," ">>
CAR_MODEL_PADDED == <<" ","C","i","v","i","c"," ">>
DATE == <<"2","0","2","6","-","1","1","-","0","7">>
TIME == <<"1","0",":","0","0"," ","A","M">>
TIME_PADDED == <<" ","1","0",":","0","0"," ","A","M"," ">>
SERVICE_TYPE == <<"O","i","l"," ","C","h","a","n","g","e">>
TEXT_PADDED == <<" ","h","i"," ">>
BUDGET == <<"2","M"," ","-"," ","3","M">>

Leads == {
  [name |-> JStr(NAME_PADDED), phone |-> JStr(PHONE), email |-> JNull,
   interested_in |-> JNull, budget |-> JNull, notes |-> JNull],
  [name |-> JStr(NAME), phone |-> JStr(PHONE), email |-> JStr(EMAIL_PADDED),
   interested_in |-> JStr(CAR_MODEL_PADDED), budget |-> JStr(BUDGET),
   notes |-> JStr(<<>>)] }

TestDrives == {
  [phone |-> JStr(PHONE), email |-> JNull, customer_name |-> JStr(NAME_PADDED),
   car_model |-> JStr(CAR_MODEL_PADDED), preferred_date |-> JStr(DATE),
   preferred_time |-> JStr(TIME_PADDED)] }

ServiceRequests == {
  [phone |-> JStr(PHONE), customer_name |-> JStr(NAME_PADDED),
   car_model |-> JStr(CAR_MODEL_PADDED), service_type |-> JStr(SERVICE_TYPE),
   description |-> JNull] }

\* limits a client asks a listing for: limit is any int
Limits == {-1, 0, 1, 2, SESSION_LIMIT}

VALID == Response(200, 1)

\* a transport that gives every POST the same answer
Always(o) == [i \in 1..MaxPosts |-> o]

\* the answers a POST of a retried call meets
Plain == { Response(503, 0), Response(500, 0), Response(404, 0),
           ConnectError, ReadTimeout, VALID }

\* transports: every run of plain answers; the other statuses of the
\* forcelist, failing throughout or until the last POST; every body
Transports ==
  [1..MaxPosts -> Plain]
  \cup { Always(Response(st, 0)) : st \in STATUS_FORCELIST }
  \cup { [i \in 1..MaxPosts |-> IF i < MaxPosts THEN Response(st, 0) ELSE VALID] :
           st \in STATUS_FORCELIST }
  \cup { Always(Response(200, b)) : b \in 0..NBodies }

FewTransports == { Always(Response(200, 2)), Always(ReadTimeout) }

\* histories a client of the API sends: n turns, told apart by their number
ClientHistory(n) ==
  [i \in 1..n |-> Entry(IF i % 2 = 1 THEN "user" ELSE "assistant", PriorText(i))]

---------------------------------------------------------------------------
(* State *)

NoTransport == <<>>
NoOut ==
  [raised |-> FALSE, err |-> <<>>, posts |-> 0, extracted |-> JNull, history |-> <<>>,
   pre |-> JNull, result |-> Text(<<>>), prompted |-> FALSE, matching |-> <<>>,
   kb |-> <<>>, sections |-> <<>>, inventory |-> <<>>]

Done(op, session_id, query, prior, transport, found, out) ==
  [query |-> query, transport |-> transport, session_id |-> session_id, op |-> op,
   prior |-> prior, found |-> found, out |-> out]

\* the two processes over the one store file, and both having started
Procs == {"api", "ui"}
Started == [p \in Procs |-> "ready"]

\* no request is being answered
Waiting == Done("idle", NEW_SESSION, <<>>, <<>>, NoTransport, <<>>, NoOut)
Idle == resp.op = "idle"

\* the processes have started: init_db has run, the UI script has given the
\* run a new session, found no message of it in the store and greets
InitWith(stores, priors) ==
  /\ keyApi \in BOOLEAN
  /\ keyUi \in BOOLEAN
  /\ cars \in stores
  /\ messages \in { PriorStore(n) : n \in priors }
  /\ ui = [messages |-> <<Entry("assistant", WELCOME)>>, session_id |-> NEW_SESSION]
  /\ writes = 0
  /\ resp = Waiting
  /\ leads = <<>>
  /\ test_drives = <<>>
  /\ service_requests = <<>>
  /\ conns = 0
  /\ tables = TRUE
  /\ pc = Started
  /\ sawEmpty = [p \in Procs |-> FALSE]
  /\ runs = 0

\* the store is new, or an earlier run has left a session in it
Init == InitWith({SeedCars}, {0, MaxPrior})

---------------------------------------------------------------------------
(* Operations of the HTTP API *)

\* POST /chat
ApiChat(session_id, user_message, history, transport) ==
  /\ Idle
  /\ resp' = Done("api_chat", session_id, user_message, history, transport, <<>>,
                  chat(keyApi, cars, user_message, history, transport))
  /\ UNCHANGED <<keyApi, keyUi, cars, messages, ui, writes, forms, conns, boot>>

\* POST /messages/save
ApiSaveMessage(session_id, role, text) ==
  /\ Idle
  /\ writes < MaxWrites
  /\ messages' = save_message(messages, session_id, role, text)
  /\ writes' = writes + 1
  /\ resp' = Done("api_save_message", session_id, text, <<>>, NoTransport, <<>>, NoOut)
  /\ UNCHANGED <<keyApi, keyUi, cars, ui, forms, conns, boot>>

\* POST /cars/search
ApiSearchCars(query) ==
  /\ Idle
  /\ resp' = Done("api_search_cars", NEW_SESSION, query, <<>>, NoTransport,
                  Ids(search_cars(cars, query)), NoOut)
  /\ UNCHANGED <<keyApi, keyUi, cars, messages, ui, writes, forms, conns, boot>>

\* POST /leads
ApiCreateLead(lead) ==
  /\ Idle
  /\ writes < MaxWrites
  /\ leads' = create_lead(leads, lead)
  /\ writes' = writes + 1
  /\ resp' = Done("api_create_lead", NEW_SESSION, lead, <<>>, NoTransport,
                  <<Len(leads) + 1>>, NoOut)
  /\ UNCHANGED <<keyApi, keyUi, cars, messages, ui, test_drives, service_requests,
                 conns, boot>>

\* POST /test-drives
ApiCreateTestDrive(test_drive) ==
  /\ Idle
  /\ writes < MaxWrites
  /\ test_drives' = create_test_drive(test_drives, test_drive)
  /\ writes' = writes + 1
  /\ resp' = Done("api_create_test_drive", NEW_SESSION, test_drive, <<>>, NoTransport,
                  <<Len(test_drives) + 1>>, NoOut)
  /\ UNCHANGED <<keyApi, keyUi, cars, messages, ui, leads, service_requests,
                 conns, boot>>

\* POST /service-requests
ApiCreateServiceRequest(service) ==
  /\ Idle
  /\ writes < MaxWrites
  /\ service_requests' = create_service_request(service_requests, service)
  /\ writes' = writes + 1
  /\ resp' = Done("api_create_service_request", NEW_SESSION, service, <<>>,
                  NoTransport, <<Len(service_requests) + 1>>, NoOut)
  /\ UNCHANGED <<keyApi, keyUi, cars, messages, ui, leads, test_drives,
                 conns, boot>>

\* GET /messages/{session_id}
ApiGetMessages(session_id, limit) ==
  /\ Idle
  /\ resp' = Done("api_get_messages", session_id, <<limit>>, <<>>, NoTransport,
                  get_messages(messages, session_id, limit), NoOut)
  /\ UNCHANGED <<keyApi, keyUi, cars, messages, ui, writes, forms, conns, boot>>

\* GET /cars
ApiGetAllCars ==
  /\ Idle
  /\ resp' = Done("api_get_all_cars", NEW_SESSION, <<>>, <<>>, NoTransport,
                  Ids(get_all_cars(cars)), NoOut)
  /\ UNCHANGED <<keyApi, keyUi, cars, messages, ui, writes, forms, conns, boot>>

\* GET /stats/{session_id}
ApiGetStats(session_id) ==
  /\ Idle
  /\ resp' = Done("api_get_stats", session_id, <<>>, <<>>, NoTransport,
                  get_stats(messages, test_drives, leads, session_id), NoOut)
  /\ UNCHANGED <<keyApi, keyUi, cars, messages, ui, writes, forms, conns, boot>>

\* the routes of the API whose handler opens a connection, by three of them
StoreRoutes == {"/messages/save", "/chat", "/stats"}

\* str(e) of sqlite3.OperationalError when another process holds the lock
DATABASE_IS_LOCKED ==
  <<"d","a","t","a","b","a","s","e"," ","i","s"," ","l","o","c","k","e","d">>

\* a handler whose statement raises: conn = get_db(), c.execute(...) raises,
\* the except clause logs and raises HTTPException(500); conn.close() is on
\* the path of success only, so the connection stays open
ApiStoreFailure(route) ==
  /\ Idle
  /\ conns < MaxOpen
  /\ conns' = conns + 1
  /\ resp' = Done("api_store_failure", NEW_SESSION, route, <<>>, NoTransport, <<>>,
                  [NoOut EXCEPT !.raised = TRUE, !.err = DATABASE_IS_LOCKED,
                                !.result = HttpError(500,
                                  IF route = "/chat" THEN INTERNAL_SERVER_ERROR
                                  ELSE DATABASE_IS_LOCKED)])
  /\ UNCHANGED <<keyApi, keyUi, cars, messages, ui, writes, forms, boot>>

\* the runtime frees a connection object that nothing refers to any more,
\* which closes it: when, the code does not say
Collect ==
  /\ conns > 0
  /\ conns' = conns - 1
  /\ UNCHANGED <<keyApi, keyUi, cars, messages, ui, writes, resp, forms, boot>>

---------------------------------------------------------------------------
(* Operations of the interactive UI *)

\* the chat input: the script's last block
UiChat(user_input, transport) ==
  LET shown   == Append(ui.messages, Entry("user", user_input))
      saved   == save_message(messages, ui.session_id, "user", user_input)
      history == LastN(shown, HISTORY_WINDOW)
      out     == ask_gemini(keyUi, cars, user_input, history, transport)
      response == out.result.text
  IN /\ Idle
     /\ writes < MaxWrites
     /\ ui' = [ui EXCEPT !.messages = Append(shown, Entry("assistant", response))]
     /\ messages' = save_message(saved, ui.session_id, "assistant", response)
     /\ writes' = writes + 1
     /\ resp' = Done("ui_chat", ui.session_id, user_input, ui.messages, transport,
                     <<>>, out)
     /\ UNCHANGED <<keyApi, keyUi, cars, forms, conns, boot>>

\* ask_gemini alone, as the chat input calls it
UiAskGemini(user_query, transport) ==
  /\ Idle
  /\ resp' = Done("ui_ask_gemini", ui.session_id, user_query, ui.messages,
                  transport, <<>>,
                  ask_gemini(keyUi, cars, user_query,
                             LastN(Append(ui.messages, Entry("user", user_query)),
                                   HISTORY_WINDOW),
                             transport))
  /\ UNCHANGED <<keyApi, keyUi, cars, messages, ui, writes, forms, conns, boot>>

\* the Clear Chat button
UiClearChat ==
  /\ Idle
  /\ ui' = [ui EXCEPT !.messages = <<>>]
  /\ resp' = Done("ui_clear_chat", ui.session_id, <<>>, <<>>, NoTransport, <<>>, NoOut)
  /\ UNCHANGED <<keyApi, keyUi, cars, messages, writes, forms, conns, boot>>

\* the Load Selected Session button, on a session other than the current one
UiLoadSession(selected_session) ==
  /\ Idle
  /\ selected_session # ui.session_id
  /\ selected_session \in { messages[i].session_id : i \in 1..Len(messages) }
  /\ ui' = [messages |-> AsEntries(get_session_messages(messages, selected_session,
                                                        SESSION_LIMIT)),
            session_id |-> selected_session]
  /\ resp' = Done("ui_load_session", selected_session, <<>>, <<>>, NoTransport, <<>>,
                  NoOut)
  /\ UNCHANGED <<keyApi, keyUi, cars, messages, writes, forms, conns, boot>>

\* the Save Lead form
UiSaveLead(lead_name, lead_phone, lead_email, lead_interest, lead_budget, lead_notes) ==
  /\ Idle
  /\ writes < MaxWrites
  /\ lead_name # <<>> /\ lead_phone # <<>>
  /\ leads' = save_lead(leads, lead_name, lead_phone, lead_email, lead_interest,
                        lead_budget, lead_notes)
  /\ writes' = writes + 1
  /\ resp' = Done("ui_save_lead", ui.session_id, lead_name, <<>>, NoTransport, <<>>,
                  NoOut)
  /\ UNCHANGED <<keyApi, keyUi, cars, messages, ui, test_drives, service_requests,
                 conns, boot>>

\* the Book Test Drive form
UiSaveTestDrive(td_name, td_phone, td_email, td_car, td_date, td_time) ==
  /\ Idle
  /\ writes < MaxWrites
  /\ td_name # <<>> /\ td_phone # <<>> /\ td_car # <<>>
  /\ test_drives' = save_test_drive(test_drives, td_name, td_phone, td_email, td_car,
                                    td_date, td_time)
  /\ writes' = writes + 1
  /\ resp' = Done("ui_save_test_drive", ui.session_id, td_name, <<>>, NoTransport,
                  <<>>, NoOut)
  /\ UNCHANGED <<keyApi, keyUi, cars, messages, ui, leads, service_requests,
                 conns, boot>>

\* the Request Service form
UiSaveServiceRequest(srv_name, srv_phone, srv_car, srv_type, srv_desc) ==
  /\ Idle
  /\ writes < MaxWrites
  /\ srv_name # <<>> /\ srv_phone # <<>> /\ srv_car # <<>>
  /\ service_requests' = save_service_request(service_requests, srv_name, srv_phone,
                                              srv_car, srv_type, srv_desc)
  /\ writes' = writes + 1
  /\ resp' = Done("ui_save_service_request", ui.session_id, srv_name, <<>>,
                  NoTransport, <<>>, NoOut)
  /\ UNCHANGED <<keyApi, keyUi, cars, messages, ui, leads, test_drives,
                 conns, boot>>

\* get_user_history_summary of the session on show
UiHistorySummary ==
  /\ Idle
  /\ resp' = Done("ui_history_summary", ui.session_id, <<>>, <<>>, NoTransport,
                  get_user_history_summary(messages, test_drives, leads,
                                           ui.session_id),
                  NoOut)
  /\ UNCHANGED <<keyApi, keyUi, cars, messages, ui, writes, forms, conns, boot>>

\* a rerun of the script once it has run: "messages" is in the session state,
\* so the session setup is passed over and init_db runs again
UiRerunScript ==
  /\ Idle
  /\ pc["ui"] = "ready"
  /\ tables' = TRUE
  /\ cars' = IF cars = <<>> THEN SeedCars ELSE cars
  /\ resp' = Done("ui_rerun_script", ui.session_id, <<>>, <<>>, NoTransport, <<>>,
                  NoOut)
  /\ UNCHANGED <<keyApi, keyUi, messages, ui, writes, forms, conns, pc, sawEmpty, runs>>

---------------------------------------------------------------------------
(* The start of the two processes over a store without tables *)

\* executemany(INSERT INTO cars ..., sample_cars): five rows at the end,
\* with the next rowids
insert_sample_cars(table) ==
  table \o [i \in 1..Len(SeedCars) |-> [SeedCars[i] EXCEPT !.id = Len(table) + i]]

\* the UI script's session setup: "messages" is not in the session state, so
\* it is set to [] and get_session_messages reads the table messages; without
\* the table the SELECT raises and the run ends there
UiSessionSetup ==
  /\ pc["ui"] = "setup"
  /\ IF tables
     THEN LET history_messages ==
                get_session_messages(messages, ui.session_id, SESSION_LIMIT)
          IN /\ ui' = [ui EXCEPT !.messages =
                         IF history_messages = <<>>
                         THEN <<Entry("assistant", WELCOME)>>
                         ELSE AsEntries(history_messages)]
             /\ pc' = [pc EXCEPT !["ui"] = "create"]
     ELSE /\ ui' = [ui EXCEPT !.messages = <<>>]
          /\ pc' = [pc EXCEPT !["ui"] = "crashed"]
  /\ UNCHANGED <<keyApi, keyUi, cars, messages, writes, resp, forms, conns,
                 tables, sawEmpty, runs>>

\* init_db: the five CREATE TABLE IF NOT EXISTS and the commit
CreateTables(p) ==
  /\ pc[p] = "create"
  /\ tables' = TRUE
  /\ pc' = [pc EXCEPT ![p] = "count"]
  /\ UNCHANGED <<keyApi, keyUi, cars, messages, ui, writes, resp, forms, conns,
                 sawEmpty, runs>>

\* init_db: SELECT COUNT(*) FROM cars, outside a transaction
CountCars(p) ==
  /\ pc[p] = "count"
  /\ sawEmpty' = [sawEmpty EXCEPT ![p] = (cars = <<>>)]
  /\ pc' = [pc EXCEPT ![p] = "seed"]
  /\ UNCHANGED <<keyApi, keyUi, cars, messages, ui, writes, resp, forms, conns,
                 tables, runs>>

\* init_db: if the count was 0, the INSERT of the sample cars and the commit
SeedIfEmpty(p) ==
  /\ pc[p] = "seed"
  /\ cars' = IF sawEmpty[p] THEN insert_sample_cars(cars) ELSE cars
  /\ pc' = [pc EXCEPT ![p] = "ready"]
  /\ UNCHANGED <<keyApi, keyUi, messages, ui, writes, resp, forms, conns,
                 tables, sawEmpty, runs>>

\* the API process is started again: startup_event calls init_db
ApiRestart ==
  /\ pc["api"] = "ready"
  /\ runs < MaxRuns
  /\ runs' = runs + 1
  /\ pc' = [pc EXCEPT !["api"] = "create"]
  /\ UNCHANGED <<keyApi, keyUi, cars, messages, ui, writes, resp, forms, conns,
                 tables, sawEmpty>>

\* the user acts on the page and the script runs again in the same session,
\* after a run that ended or that raised: "messages" is in the session state,
\* the session setup is passed over and init_db is next
UiRerun ==
  /\ pc["ui"] \in {"ready", "crashed"}
  /\ runs < MaxRuns
  /\ runs' = runs + 1
  /\ pc' = [pc EXCEPT !["ui"] = "create"]
  /\ UNCHANGED <<keyApi, keyUi, cars, messages, ui, writes, resp, forms, conns,
                 tables, sawEmpty>>

---------------------------------------------------------------------------
(* Requests are answered one at a time *)

\* the caller has its answer and the surface takes the next request
NextRequest ==
  /\ ~Idle
  /\ resp' = Waiting
  /\ UNCHANGED <<keyApi, keyUi, cars, messages, ui, writes, forms, conns, boot>>

---------------------------------------------------------------------------
(* Specifications *)

\* the store and the UI's session over a run
Next ==
  \/ \E q \in FewQueries, tr \in FewTransports : UiChat(q, tr)
  \/ UiClearChat
  \/ \E s \in Sessions : UiLoadSession(s)
  \/ \E s \in Sessions : ApiSaveMessage(s, "user", Q_HONDA)
  \/ ApiChat(NEW_SESSION, Q_HONDA, ClientHistory(HISTORY_WINDOW + 2), Always(VALID))
  \/ NextRequest

Spec == Init /\ [][Next]_vars

\* the outbound call under every transport
InitGateway == InitWith({SeedCars}, {0})

NextGateway ==
  \/ \E tr \in Transports : ApiChat(NEW_SESSION, Q_HONDA, ClientHistory(2), tr)
  \/ \E tr \in Transports : UiAskGemini(Q_HONDA, tr)
  \/ NextRequest

SpecGateway == InitGateway /\ [][NextGateway]_vars

\* the car search under every query
InitSearch == InitWith(CarStores, {0})

NextSearch ==
  \/ \E q \in Queries : ApiSearchCars(q)
  \/ \E q \in Queries : ApiChat(NEW_SESSION, q, ClientHistory(2), Always(VALID))
  \/ \E q \in Queries : UiAskGemini(q, Always(VALID))
  \/ NextRequest

SpecSearch == InitSearch /\ [][NextSearch]_vars

\* the two processes start over a store file that has no table yet
InitStartup ==
  /\ keyApi = TRUE
  /\ keyUi = TRUE
  /\ cars = <<>>
  /\ messages = <<>>
  /\ ui = [messages |-> <<>>, session_id |-> NEW_SESSION]
  /\ writes = 0
  /\ resp = Waiting
  /\ leads = <<>>
  /\ test_drives = <<>>
  /\ service_requests = <<>>
  /\ conns = 0
  /\ tables = FALSE
  /\ pc = [p \in Procs |-> IF p = "ui" THEN "setup" ELSE "create"]
  /\ sawEmpty = [p \in Procs |-> FALSE]
  /\ runs = 0

NextStartup ==
  \/ UiSessionSetup
  \/ \E p \in Procs : CreateTables(p)
  \/ \E p \in Procs : CountCars(p)
  \/ \E p \in Procs : SeedIfEmpty(p)
  \/ ApiRestart
  \/ UiRerun

SpecStartup == InitStartup /\ [][NextStartup]_vars

\* the API's handlers, those that end well and those whose statement raises
InitConnections == InitWith({SeedCars}, {FewPrior}) /\ keyApi /\ keyUi

NextConnections ==
  \/ \E route \in StoreRoutes : ApiStoreFailure(route)
  \/ Collect
  \/ \E s \in Sessions : ApiSaveMessage(s, "user", NAME)
  \/ \E s \in Sessions : ApiGetStats(s)
  \/ \E tr \in Transports : ApiChat(NEW_SESSION, Q_HONDA, ClientHistory(2), tr)
  \/ NextRequest

SpecConnections == InitConnections /\ [][NextConnections]_vars

\* the five tables under the writes, the listings and the UI's buttons
InitStore == InitWith({SeedCars}, {FewPrior}) /\ keyApi /\ keyUi

NextStore ==
  \/ \E s \in Sessions : ApiSaveMessage(s, "user", TEXT_PADDED)
  \/ \E lead \in Leads : ApiCreateLead(lead)
  \/ \E test_drive \in TestDrives : ApiCreateTestDrive(test_drive)
  \/ \E service \in ServiceRequests : ApiCreateServiceRequest(service)
  \/ UiSaveLead(NAME_PADDED, PHONE, <<>>, CAR_MODEL_PADDED, BUDGET, <<>>)
  \/ UiSaveTestDrive(NAME_PADDED, PHONE, EMAIL_PADDED, CAR_MODEL_PADDED, DATE, TIME)
  \/ UiSaveServiceRequest(NAME_PADDED, PHONE, CAR_MODEL_PADDED, SERVICE_TYPE, <<>>)
  \/ UiChat(NAME, Always(ReadTimeout))
  \/ \E s \in Sessions, limit \in Limits : ApiGetMessages(s, limit)
  \/ \E s \in Sessions : ApiGetStats(s)
  \/ UiHistorySummary
  \/ ApiGetAllCars
  \/ ApiSearchCars(Q_HONDA)
  \/ ApiChat(NEW_SESSION, Q_HONDA, ClientHistory(2), Always(VALID))
  \/ UiClearChat
  \/ \E s \in Sessions : UiLoadSession(s)
  \/ UiRerunScript
  \/ NextRequest

SpecStore == InitStore /\ [][NextStore]_vars

\* the prompt of a chat turn under questions, histories and inventories
InitPrompt == InitWith(CarStores \cup {BigStore}, {0})

NextPrompt ==
  \/ \E q \in KbQueries, n \in {0, 2} :
        ApiChat(NEW_SESSION, q, ClientHistory(n), Always(VALID))
  \/ \E q \in KbQueries : UiAskGemini(q, Always(VALID))
  \/ NextRequest

SpecPrompt == InitPrompt /\ [][NextPrompt]_vars

---------------------------------------------------------------------------
(* What the claims speak of *)

ApiChatDone == resp.op = "api_chat"
UiChatDone == resp.op \in {"ui_chat", "ui_ask_gemini"}
ChatDone == ApiChatDone \/ UiChatDone

\* the key of the surface that answered
KeyOfSurface == IF ApiChatDone THEN keyApi ELSE keyUi

\* the answer the last POST of the turn met
LastAnswer == resp.transport[resp.out.posts]

\* a body in which candidates[0].content.parts[0].text is a non-empty string,
\* every level of the path being present and of its documented shape
WellFormed(body) ==
  /\ body.t = "obj"
  /\ "candidates" \in DOMAIN body.v
  /\ body.v.candidates.t = "list"
  /\ Len(body.v.candidates.v) > 0
  /\ LET candidate == body.v.candidates.v[1] IN
     /\ candidate.t = "obj"
     /\ "content" \in DOMAIN candidate.v
     /\ candidate.v.content.t = "obj"
     /\ "parts" \in DOMAIN candidate.v.content.v
     /\ candidate.v.content.v.parts.t = "list"
     /\ Len(candidate.v.content.v.parts.v) > 0
     /\ LET part == candidate.v.content.v.parts.v[1] IN
        /\ part.t = "obj"
        /\ "text" \in DOMAIN part.v
        /\ part.v.text.t = "str"
        /\ Len(part.v.text.v) > 0

\* the turn's call was answered 200 with a JSON body
Answered200 ==
  /\ ChatDone
  /\ KeyOfSurface
  /\ resp.out.posts >= 1
  /\ LastAnswer.kind = "response"
  /\ LastAnswer.status = 200
  /\ LastAnswer.body >= 1

---------------------------------------------------------------------------
(* C1: for every outcome of the generation call, a chat turn hands its     *)
(* caller a display string, never an error response.                       *)
(* The API's handler answers 500 when the text field is a non-empty value  *)
(* that is not a string.                                                   *)
C1_AlwaysDisplayString ==
  ChatDone => resp.out.result.kind = "text"

---------------------------------------------------------------------------
---------------------------------------------------------------------------
(* C3: after a response whose status is 429, 500, 502, 503 or 504 the POST *)
(* is issued again, up to 2 more times; after any other status it is not;  *)
(* a valid 200 within the budget gives the parsed text, and a budget of    *)
(* failures gives the fallback with the phone number.                      *)
C3_RetryStatuses == {429, 500, 502, 503, 504}

RECURSIVE C3_PolicyPosts(_, _)
C3_PolicyPosts(transport, i) ==
  IF i < 3 /\ transport[i].status \in C3_RetryStatuses
  THEN C3_PolicyPosts(transport, i + 1) ELSE i

C3_RetryPolicy ==
  ( /\ ApiChatDone
    /\ keyApi
    /\ \A i \in 1..MaxPosts : resp.transport[i].kind = "response" )
  => LET n == C3_PolicyPosts(resp.transport, 1)
         last == resp.transport[n]
     IN /\ resp.out.posts = n
        /\ (last.status = 200 /\ last.body >= 1 /\ WellFormed(Bodies[last.body]))
             => resp.out.pre = Bodies[last.body].v.candidates.v[1].v.content.v.parts.v[1].v.text
        /\ last.status \in C3_RetryStatuses
             => /\ resp.out.result.kind = "text"
                /\ Contains(resp.out.result.text, PHONE)

---------------------------------------------------------------------------
(* C4: for a 200 body in which a level of candidates -> content -> parts   *)
(* -> text is absent, empty or of the wrong shape, the extraction raises   *)
(* nothing and gives no text, and the turn answers with its "couldn't      *)
(* generate a response" fallback.                                          *)
C4_DefensiveExtraction ==
  (Answered200 /\ ~WellFormed(Bodies[LastAnswer.body]))
  => /\ ~resp.out.raised
     /\ ~Truthy(resp.out.extracted)
     /\ resp.out.result = Text(IF ApiChatDone THEN API_NO_ANSWER ELSE UI_NO_PARSE)

---------------------------------------------------------------------------
(* C5: on every failure path the returned text is one of a fixed set of    *)
(* constant messages, whatever the error, and contains 0300-1234567, in    *)
(* the API's chat handler and in the UI's ask_gemini.                      *)
C5_Fallbacks ==
  { API_NOT_CONFIGURED, API_NO_ANSWER, API_TROUBLE,
    UI_NOT_CONFIGURED, UI_NO_PARSE, UI_TROUBLE }

C5_FailurePath ==
  /\ ChatDone
  /\ ~(Answered200 /\ WellFormed(Bodies[LastAnswer.body]))

C5_FixedFallbackWithPhone ==
  C5_FailurePath
  => /\ resp.out.result.kind = "text"
     /\ resp.out.result.text \in C5_Fallbacks
     /\ Contains(resp.out.result.text, PHONE)

---------------------------------------------------------------------------
(* C6: with no API key a chat turn issues no POST at all and answers with  *)
(* the surface's configuration message.                                    *)
C6_NoKeyNoPost ==
  /\ (ApiChatDone /\ ~keyApi)
       => resp.out.posts = 0 /\ resp.out.result = Text(API_NOT_CONFIGURED)
  /\ (UiChatDone /\ ~keyUi)
       => resp.out.posts = 0 /\ resp.out.result = Text(UI_NOT_CONFIGURED)

\* a keyless turn whose transport would have answered
C6_Witness ==
  /\ ApiChatDone
  /\ ~keyApi
  /\ resp.transport = Always(VALID)
  /\ resp.out.posts = 0

---------------------------------------------------------------------------
(* C7: the cars of the prompt's MATCHING CARS block are the first, at most *)
(* 3, available cars whose make, model or features contain a term of the   *)
(* query; for "I want a Honda under 3 million" on the seeded inventory     *)
(* the Honda Civic and the Honda City are both in the block.               *)
C7_Terms(query) ==
  { SubSeq(query, ij[1], ij[2]) :
      ij \in { w \in (1..Len(query)) \X (1..Len(query)) :
                 /\ w[1] <= w[2]
                 /\ \A k \in w[1]..w[2] : query[k] # " "
                 /\ (w[1] = 1 \/ query[w[1] - 1] = " ")
                 /\ (w[2] = Len(query) \/ query[w[2] + 1] = " ") } }

C7_HasTerm(car, query) ==
  /\ car.status = "available"
  /\ \E term \in C7_Terms(query) :
        \/ Contains(Lower(car.make), Lower(term))
        \/ Contains(Lower(car.model), Lower(term))
        \/ Contains(Lower(car.features), Lower(term))

C7_MatchingCars ==
  (ChatDone /\ resp.out.prompted)
  => LET Keep(car) == C7_HasTerm(car, resp.query) IN
     /\ resp.out.matching = Ids(FirstN(Filter(cars, Keep), 3))
     /\ resp.query = Q_HONDA_BUDGET
          => \A id \in {2, 4} : \E i \in 1..Len(resp.out.matching) :
                                   resp.out.matching[i] = id

---------------------------------------------------------------------------
(* C8: the car search returns exactly the available cars whose make,       *)
(* model or features contain the query as a literal substring, letters     *)
(* compared without case, also for a query with '%' or '_' in it; a car    *)
(* that is not available is never returned.                                *)
C8_LiteralMatch(car, query) ==
  /\ car.status = "available"
  /\ \/ Contains(Lower(car.make), Lower(query))
     \/ Contains(Lower(car.model), Lower(query))
     \/ Contains(Lower(car.features), Lower(query))

C8_LiteralSubstringSearch ==
  resp.op = "api_search_cars"
  => LET Keep(car) == C8_LiteralMatch(car, resp.query) IN
     resp.found = Ids(Filter(cars, Keep))

---------------------------------------------------------------------------
(* C9: the history of the assembled prompt is the 10 most recent turns     *)
(* before the current query, all of them when there are fewer, oldest      *)
(* first, and the current query is not among them; of 15 earlier turns it  *)
(* holds the last 10.                                                      *)
C9_HistoryIsPriorTurns ==
  (ChatDone /\ resp.out.prompted)
  => /\ resp.out.history = LastN(resp.prior, HISTORY_WINDOW)
     /\ Len(resp.prior) = MaxPrior
          => resp.out.history = SubSeq(resp.prior, MaxPrior - 9, MaxPrior)

---------------------------------------------------------------------------
(* C10: the returned text ends with the suggestion line exactly when the   *)
(* generated text contains, letters compared without case, one of          *)
(* "interested", "would you like", "book", "schedule", "test drive";       *)
(* a text with none of them is returned as it is; the API's chat handler   *)
(* and the UI decide alike.                                                *)
C10_TriggerWords == <<
  <<"i","n","t","e","r","e","s","t","e","d">>,
  <<"w","o","u","l","d"," ","y","o","u"," ","l","i","k","e">>,
  <<"b","o","o","k">>,
  <<"s","c","h","e","d","u","l","e">>,
  <<"t","e","s","t"," ","d","r","i","v","e">> >>

C10_SuggestionIffTrigger ==
  ( /\ Answered200
    /\ ~resp.out.raised
    /\ resp.out.extracted.t = "str"
    /\ Len(resp.out.extracted.v) > 0 )
  => LET generated == resp.out.extracted.v
         returned  == resp.out.result.text
         triggered == AnyTrigger(generated, C10_TriggerWords)
     IN /\ triggered <=> ( \/ EndsWith(returned, API_SUGGESTION)
                           \/ EndsWith(returned, UI_SUGGESTION) )
        /\ ~triggered => returned = generated

---------------------------------------------------------------------------
(* C11: search_knowledge_base gives the info of every topic that has a     *)
(* keyword occurring in the lower-cased query, each such info once even    *)
(* when several of the topic's keywords occur, in the table's order, and   *)
(* nothing when no keyword occurs.                                         *)
C11_TopicHit(data, query) ==
  \E k \in 1..Len(data.keywords) : Contains(Lower(query), data.keywords[k])

C11_OneInfoPerTopic ==
  (ChatDone /\ resp.out.prompted)
  => LET Hit(data) == C11_TopicHit(data, resp.query)
         hits == Filter(knowledge_base, Hit)
     IN resp.out.kb = [i \in 1..Len(hits) |-> hits[i].info]

\* a question with two keywords of one topic and a keyword of another
C11_Witness ==
  /\ ChatDone
  /\ resp.out.prompted
  /\ Len(resp.out.kb) = 2
  /\ \E t \in 1..Len(knowledge_base) :
       Cardinality({ k \in 1..Len(knowledge_base[t].keywords) :
                       Contains(Lower(resp.query), knowledge_base[t].keywords[k]) }) >= 2

---------------------------------------------------------------------------
(* C12: a section of the prompt whose input is empty is left out with its  *)
(* header: no RELEVANT INFORMATION without knowledge-base matches, no      *)
(* MATCHING CARS without a matching car, no CONVERSATION HISTORY without   *)
(* history.                                                                *)
C12_HasHeader(header) ==
  \E i \in 1..Len(resp.out.sections) : resp.out.sections[i] = header

C12_EmptySectionsOmitted ==
  (ChatDone /\ resp.out.prompted)
  => /\ resp.out.kb = <<>> => ~C12_HasHeader("RELEVANT INFORMATION")
     /\ resp.out.matching = <<>> => ~C12_HasHeader("MATCHING CARS")
     /\ resp.out.history = <<>> => ~C12_HasHeader("CONVERSATION HISTORY")

---------------------------------------------------------------------------
(* C13: every write (save message, create lead, create test-drive booking, *)
(* create service request, of the API and of the UI) stores each string    *)
(* field without the whitespace at its two ends, and an absent optional    *)
(* field as the empty string.                                              *)
C13_Stripped(row, fields) == \A f \in fields : Strip(row[f]) = row[f]

C13_Absent(sent, row, fields) ==
  \A f \in fields : sent[f] = JNull => row[f] = <<>>

C13_WritesStripStrings ==
  /\ resp.op \in {"api_save_message", "ui_chat"}
     => C13_Stripped(messages[Len(messages)], {"text"})
  /\ resp.op \in {"api_create_lead", "ui_save_lead"}
     => C13_Stripped(leads[Len(leads)],
                     {"name", "phone", "email", "interested_in", "budget", "notes"})
  /\ resp.op = "api_create_lead"
     => C13_Absent(resp.query, leads[Len(leads)],
                   {"email", "interested_in", "budget", "notes"})
  /\ resp.op \in {"api_create_test_drive", "ui_save_test_drive"}
     => C13_Stripped(test_drives[Len(test_drives)],
                     {"customer_name", "phone", "email", "car_model",
                      "preferred_date", "preferred_time"})
  /\ resp.op = "api_create_test_drive"
     => C13_Absent(resp.query, test_drives[Len(test_drives)], {"email"})
  /\ resp.op \in {"api_create_service_request", "ui_save_service_request"}
     => C13_Stripped(service_requests[Len(service_requests)],
                     {"customer_name", "phone", "car_model", "service_type",
                      "description"})
  /\ resp.op = "api_create_service_request"
     => C13_Absent(resp.query, service_requests[Len(service_requests)],
                   {"description"})

---------------------------------------------------------------------------
(* C14: no operation deletes or changes a stored row: through every step   *)
(* each of the five collections keeps the rows it has, with their values   *)
(* and in their places, and at most gains rows at its end.                 *)
C14_Kept(before, after) ==
  /\ Len(before) <= Len(after)
  /\ \A i \in 1..Len(before) : after[i] = before[i]

C14_AppendOnly ==
  [][ /\ C14_Kept(cars, cars')
      /\ C14_Kept(messages, messages')
      /\ C14_Kept(leads, leads')
      /\ C14_Kept(test_drives, test_drives')
      /\ C14_Kept(service_requests, service_requests') ]_vars

\* Clear Chat has emptied the conversation on show; the rows written before
\* it are in the store
C14_Witness ==
  /\ resp.op = "ui_clear_chat"
  /\ ui.messages = <<>>
  /\ Len(messages) > FewPrior
  /\ leads # <<>>

---------------------------------------------------------------------------
(* C15: the listing of a session's messages with a limit L >= 0 is the     *)
(* role and text of the L newest rows of that session and of no other,     *)
(* all of them when there are fewer, the oldest first.                     *)
C15_Mine == { i \in 1..Len(messages) : messages[i].session_id = resp.session_id }

C15_Newest(L) ==
  { i \in C15_Mine : Cardinality({ j \in C15_Mine : j > i }) < L }

C15_Listed(kept) ==
  /\ Len(resp.found) = Cardinality(kept)
  /\ \A i \in kept :
       LET k == Cardinality({ j \in kept : j <= i })
       IN resp.found[k] = [text |-> messages[i].text, role |-> messages[i].role]

C15_NewestOldestFirst ==
  (resp.op = "api_get_messages" /\ resp.query[1] >= 0)
  => C15_Listed(C15_Newest(resp.query[1]))

\* the statement for every limit the route takes
C15_AnyLimit ==
  resp.op = "api_get_messages" => C15_Listed(C15_Newest(resp.query[1]))

\* a session with more rows than the limit, listed
C15_Witness ==
  /\ resp.op = "api_get_messages"
  /\ resp.query[1] > 0
  /\ Cardinality(C15_Mine) > resp.query[1]
  /\ Len(resp.found) = resp.query[1]
  /\ \E i \in 1..Len(messages) : i \notin C15_Mine

---------------------------------------------------------------------------
(* C16: the inventory snapshot of a chat turn has available cars only, at  *)
(* most 10 of them, by year descending, cars of one year in the order of   *)
(* their insertion; no car left out is newer than a car in it.             *)
C16_Available == { i \in 1..Len(cars) : cars[i].status = "available" }

C16_At(id) == CHOOSE i \in 1..Len(cars) : cars[i].id = id

---------------------------------------------------------------------------
(* C17: the stats of a session are the number of its messages, the number  *)
(* of all test-drive bookings and the number of all leads, from the API's  *)
(* get_stats and from the UI's get_user_history_summary alike.             *)
C17_Counts(session_id) ==
  [messages |-> Cardinality({ i \in 1..Len(messages) :
                                messages[i].session_id = session_id }),
   leads |-> Len(leads),
   test_drives |-> Len(test_drives)]

C17_StatsAlike ==
  resp.op \in {"api_get_stats", "ui_history_summary"}
  => resp.found = C17_Counts(resp.session_id)

---------------------------------------------------------------------------
(* C18: the sample cars are inserted once: whatever the interleaving of    *)
(* the init_db runs of the API process and of the UI script, the cars      *)
(* table never has more than the five sample rows, and once a process has  *)
(* started it has exactly them.                                            *)
C18_SeededOnce ==
  /\ Len(cars) <= Len(SeedCars)
  /\ (\E p \in Procs : pc[p] = "ready") => cars = SeedCars

---------------------------------------------------------------------------
(* C19: over a store without tables no process reads or writes a table     *)
(* before init_db has created it: no run ends on a missing table.          *)
C19_SchemaBeforeUse == \A p \in Procs : pc[p] # "crashed"

---------------------------------------------------------------------------
(* C20: a handler that has opened a connection to the store has closed it  *)
(* when it returns, whether it ends well or a statement of it raises:      *)
(* between requests, and at the return of each, no connection is open.     *)
C20_NoOpenConnection == conns = 0

============================================================================
